---- MODULE Spec2Model ----
(***************************************************************************)
(* DevFlow-ERP Backend-API: the sprint and deployment state machines, the  *)
(* generic repository and the filter / pagination utilities, as a state    *)
(* machine over the persisted tables.  One action per HTTP handler; every  *)
(* handler runs to completion (a request is one step).                     *)
(***************************************************************************)
EXTENDS Integers, Sequences, FiniteSets, TLC

VARIABLES
    dialect,          \* the database behind DATABASE_URL: "sqlite" | "postgresql"
    projects,         \* ids of the rows of table projects
    project_rows,     \* table projects: id -> [key, team_id]
    nextProjectId,    \* next primary key of table projects
    teams,            \* table teams: id -> [name, slug]
    nextTeamId,       \* next primary key of table teams
    team_members,     \* table team_members: id -> [team_id, user_id, role]
    nextMemberId,     \* next primary key of table team_members
    services,         \* ids of the rows of table services
    sprints,          \* table sprints: id -> [project_id, status]
    nextSprintId,     \* next primary key of table sprints
    issues,           \* table issues: id -> [project_id, sprint_id, order]
    nextIssueId,      \* next primary key of table issues
    deployments,      \* table deployments: id -> row
    nextDeploymentId, \* next primary key of table deployments
    clock,            \* datetime.now()
    resp,             \* the response to the last request
    query,            \* the rows a built query selects, in its order (ids)
    paged,            \* the (items, meta) of the last paginate call
    listing,          \* a client's walk through the pages of one listing
    requests,         \* requests running side by side: id -> what the handler holds
    builder           \* a QueryBuilder: its query, and its last call

vars == <<dialect, projects, project_rows, nextProjectId, teams, nextTeamId,
          team_members, nextMemberId, services, sprints, nextSprintId, issues, nextIssueId,
          deployments, nextDeploymentId, clock, resp, query, paged, listing,
          requests, builder>>

sprintVars == <<sprints, nextSprintId>>
issueVars == <<issues, nextIssueId>>
deployVars == <<deployments, nextDeploymentId, clock>>
projectVars == <<projects, project_rows, nextProjectId>>
teamVars == <<teams, nextTeamId, team_members, nextMemberId>>
\* What no handler of sprints, issues, deployments or listings writes.
fixedVars == <<dialect, projectVars, teamVars, services>>
pageVars == <<query, paged, listing>>

----
\* Bounds of the model.
MaxProjects == 1
MaxSprints == 2
MaxIssues == 3
MaxRows == 3
SmallMaxPageSize == 2
MaxDeployments == 2
MaxClock == 2
MaxUsers == 2
MaxMembers == 2
MaxRequests == 2
MaxClauses == 2

\* A NULL column (ids and timestamps start at 1).
NULL == 0
NullStr == "NULL"

Dialects == {"sqlite", "postgresql"}
ProjectIdInputs == 1..(MaxProjects + 1)
SprintIdInputs == 1..MaxSprints
Users == 1..MaxUsers

SprintStatus == {"planned", "active", "completed", "cancelled"}

\* The empty table, and a table with one row added or removed.
EmptyTable == [i \in {} |-> NULL]
Insert(table, id, row) == [i \in DOMAIN table \cup {id} |-> IF i = id THEN row ELSE table[i]]
Remove(table, ids) == [i \in DOMAIN table \ ids |-> table[i]]

\* A foreign key the database enforces (PostgreSQL) or ignores (SQLite, whose
\* connections are opened without PRAGMA foreign_keys).
ForeignKeysEnforced == dialect = "postgresql"

\* The keys of projects: the rows present at the start have the first MaxProjects.
ProjectKeys == <<"ABC", "DEV", "OPS">>
ProjectKeyInputs == {ProjectKeys[i] : i \in 1..(MaxProjects + 1)}
TeamIdInputs == {1, 2}

\* The outcome of a handler: the status code of what it returns or raises, the id
\* the request is about and one more argument of it.
Response(op, code, id, arg) == [op |-> op, code |-> code, id |-> id, arg |-> arg]

----
\* The generic repository (CRUDBase).

create_raises_never(obj_in_type) == FALSE

\* CRUDBase.create calls obj_in.model_dump(): a pydantic schema has it, a dict has
\* not, and the call raises AttributeError before anything is added to the session.
create_raises(obj_in_type) == obj_in_type # "schema"

\* CRUDBase.update: every field of update_data the row has is set; the rest is kept.
ApplyUpdate(row, update_data) ==
    [f \in DOMAIN row |-> IF f \in DOMAIN update_data THEN update_data[f] ELSE row[f]]

\* The time stamp of rows that were in the tables before the first request.
SeedTime == 0

\* TimestampMixin.updated_at (onupdate=func.now()): the UPDATE that a commit sends
\* for a changed row stamps it; an unchanged row is not written.
Flush(old, new, now) ==
    IF new = old THEN old ELSE [new EXCEPT !.updated_at = now]

----
\* Pagination (app/utils/pagination.py).

DefaultMaxPageSize == 100
PaginationMetaFields == {"total", "page", "page_size", "total_pages"}

NotPaged == [op |-> "none"]
NoListing == [state |-> "idle"]

Min(a, b) == IF a < b THEN a ELSE b
Max(a, b) == IF a > b THEN a ELSE b

\* math.ceil(a / b) for a >= 0 and b > 0.
Ceil(a, b) == (a + b - 1) \div b

\* "if page_size > max_page_size: page_size = max_page_size"
ClampPageSize(page_size, max_page_size) ==
    IF page_size > max_page_size THEN max_page_size ELSE page_size

\* "if page < 1: page = 1"
ClampPage(page) == IF page < 1 THEN 1 ELSE page

\* "total_pages = ceil(total / page_size) if page_size > 0 else 0"
TotalPages(total, page_size) == IF page_size > 0 THEN Ceil(total, page_size) ELSE 0

\* A skip that leaves out the first page.
SkipMutant(page, page_size) == page * page_size
\* "skip = (page - 1) * page_size"
Skip(page, page_size) == (page - 1) * page_size

\* query.offset(skip).limit(page_size), executed.  A negative OFFSET or LIMIT is an
\* error in PostgreSQL; SQLite reads a negative OFFSET as 0 and a negative LIMIT as
\* no limit.  The result is [error, items].
OffsetLimit(q, skip, limit) ==
    IF (skip < 0 \/ limit < 0) /\ dialect = "postgresql"
    THEN [error |-> TRUE, items |-> <<>>]
    ELSE LET lo == Max(skip, 0)
             hi == IF limit < 0 THEN Len(q) ELSE Min(Len(q), lo + limit)
         IN  [error |-> FALSE, items |-> SubSeq(q, lo + 1, hi)]

\* PaginationMeta(**kwargs): the schema declares total, page, page_size and
\* total_pages; pydantic drops the keyword arguments it does not declare.
PaginationMeta(kwargs) ==
    [f \in DOMAIN kwargs \cap PaginationMetaFields |-> kwargs[f]]

\* paginate(db, query, page, page_size, max_page_size) on the rows q of the query.
paginate(q, page_in, page_size_in, max_page_size) ==
    LET page_size == ClampPageSize(page_size_in, max_page_size)
        page == ClampPage(page_in)
        total == Len(q)
        total_pages == TotalPages(total, page_size)
        has_next == page < total_pages
        has_prev == page > 1
        skip == Skip(page, page_size)
        result == OffsetLimit(q, skip, page_size)
    IN  [error |-> result.error,
         skip |-> skip,
         items |-> result.items,
         meta |-> PaginationMeta([page |-> page, page_size |-> page_size,
                                  total |-> total, total_pages |-> total_pages,
                                  has_next |-> has_next, has_prev |-> has_prev])]

\* What a paginate call leaves to look at: its arguments and its result.
Paged(op, q, page, page_size, max_page_size) ==
    [op |-> op, page |-> page, page_size |-> page_size, max_page_size |-> max_page_size,
     rows |-> q, result |-> paginate(q, page, page_size, max_page_size)]

PageInputs == (-1)..(MaxRows + 1)
PageSizeInputs == ((-1)..(SmallMaxPageSize + 1)) \cup {DefaultMaxPageSize + 1}
MaxPageSizeInputs == {SmallMaxPageSize, DefaultMaxPageSize}

\* A call of paginate on the query with any integers.
paginate_call(page, page_size, max_page_size) ==
    /\ paged' = Paged("paginate", query, page, page_size, max_page_size)
    /\ UNCHANGED <<fixedVars, sprintVars, issueVars, deployVars, resp, query, listing, requests, builder>>

\* A client starts to read a listing page by page, with a page size in
\* 1..max_page_size ...
start_listing(page_size, max_page_size) ==
    /\ listing.state # "walking"
    /\ page_size <= max_page_size
    /\ listing' = [state |-> "walking", page_size |-> page_size,
                   max_page_size |-> max_page_size, cursor |-> 1, acc |-> <<>>,
                   total_pages |-> 0]
    /\ UNCHANGED <<fixedVars, sprintVars, issueVars, deployVars, resp, query, paged, requests, builder>>

\* ... asks for the next page and stops after page total_pages.
next_page ==
    /\ listing.state = "walking"
    /\ LET call == Paged("paginate", query, listing.cursor, listing.page_size,
                         listing.max_page_size)
       IN  /\ paged' = call
           /\ listing' = [listing EXCEPT
                 !.state = IF listing.cursor >= call.result.meta.total_pages
                           THEN "done" ELSE "walking",
                 !.cursor = @ + 1,
                 !.total_pages = call.result.meta.total_pages,
                 !.acc = @ \o call.result.items]
    /\ UNCHANGED <<fixedVars, sprintVars, issueVars, deployVars, resp, query, requests, builder>>

\* The ascending sequence of a set of ids: a query ordered by its primary key.
RECURSIVE SortedSeq(_)
SortedSeq(S) ==
    IF S = {} THEN <<>>
    ELSE LET m == CHOOSE x \in S : \A y \in S : x <= y
         IN  <<m>> \o SortedSeq(S \ {m})


----
\* Query building (app/utils/filters.py).

\* apply_filters(query, model, filters): a condition per filter whose value is not
\* None and whose field the model has; the other filters add nothing.
apply_filters(table, ids, model_fields, filters) ==
    {i \in ids : \A field \in DOMAIN filters :
        (filters[field] # NULL /\ field \in model_fields)
            => table[i][field] = filters[field]}

\* The orders in which a set of rows can come back.
Orderings(ids) ==
    {q \in [1..Cardinality(ids) -> ids] : \A i, j \in DOMAIN q : i # j => q[i] # q[j]}

\* apply_sort(query, model, sort_by, SortOrder.ASC): ORDER BY sort_by ASC; rows
\* with equal keys come back in any order, and so do all rows when the model has
\* no such field.
apply_sort(table, ids, model_fields, sort_by) ==
    {q \in Orderings(ids) :
        sort_by \in model_fields =>
            \A i, j \in DOMAIN q : i < j => table[q[i]][sort_by] <= table[q[j]][sort_by]}

\* A query as the builder holds it: the conditions of its WHERE clause and the
\* columns of its ORDER BY clause. An optional string is None or a sequence of
\* characters.
None == [none |-> TRUE]
Str(chars) == [chars |-> chars]
IsNone(value) == "none" \in DOMAIN value
EmptyQuery == [where |-> {}, order_by |-> <<>>]
Returned(q) == [query |-> q, raised |-> FALSE]
Raised(q) == [query |-> q, raised |-> TRUE]

QueryBuilder_filter_null_condition(q, model_fields, kwargs) ==
    Returned([q EXCEPT !.where = @ \cup
        {[kind |-> "eq", field |-> f, value |-> kwargs[f]] :
            f \in {g \in DOMAIN kwargs : g \in model_fields}}])

\* QueryBuilder.filter(**kwargs), that is apply_filters: WHERE column = value for
\* each keyword whose value is not None and whose name the model has.
QueryBuilder_filter(q, model_fields, kwargs) ==
    Returned([q EXCEPT !.where = @ \cup
        {[kind |-> "eq", field |-> f, value |-> kwargs[f]] :
            f \in {g \in DOMAIN kwargs : kwargs[g] # NULL /\ g \in model_fields}}])

\* QueryBuilder.search(search_fields, search_term), that is apply_search: nothing for
\* a term that is None or empty or for no fields, else one condition, the OR of
\* column ILIKE %term% over the fields the model has.
QueryBuilder_search(q, model_fields, search_fields, search_term) ==
    IF IsNone(search_term) \/ search_term = Str(<<>>) \/ search_fields = {}
    THEN Returned(q)
    ELSE IF search_fields \cap model_fields = {} THEN Returned(q)
    ELSE Returned([q EXCEPT !.where = @ \cup
            {[kind |-> "ilike", fields |-> search_fields \cap model_fields,
              term |-> search_term.chars]}])

\* SortOrder(order.lower()): the member of SortOrder, or ValueError.
SortOrderOf(order) == CASE order \in {"asc", "ASC"} -> "asc"
                        [] order \in {"desc", "DESC"} -> "desc"
                        [] OTHER -> "ValueError"

\* QueryBuilder.sort(sort_by, order), that is apply_sort: nothing for a sort_by that
\* is None or empty or that the model has not, else ORDER BY gets one more column.
QueryBuilder_sort(q, model_fields, sort_by, order) ==
    IF sort_by \in {NullStr, ""} \/ sort_by \notin model_fields THEN Returned(q)
    ELSE IF SortOrderOf(order) = "ValueError" THEN Raised(q)
    ELSE Returned([q EXCEPT !.order_by =
            Append(@, [column |-> sort_by, order |-> SortOrderOf(order)])])

\* The rows behind the queries of a builder, and the attributes of their model.
QueryRows ==
    <<[priority |-> 2, status |-> 1, title |-> <<"F", "i", "x">>],
      [priority |-> 1, status |-> 1, title |-> <<"f", "a", "q">>],
      [priority |-> 2, status |-> 2, title |-> <<"D", "o", "c">>]>>
QueryModelFields == {"priority", "status", "title"}

\* column ILIKE %term%: the term occurs in the value, letter case aside.
LowerChar(c) == CASE c = "F" -> "f" [] c = "I" -> "i" [] c = "D" -> "d" [] OTHER -> c
Lower(chars) == [k \in DOMAIN chars |-> LowerChar(chars[k])]
ILike(value, term) ==
    \E start \in 0..(Len(value) - Len(term)) :
        \A k \in 1..Len(term) : Lower(value)[start + k] = Lower(term)[k]

Matches(row, condition) ==
    IF condition.kind = "eq" THEN row[condition.field] = condition.value
    ELSE \E f \in condition.fields : ILike(row[f], condition.term)

\* ORDER BY: row a may come before row b.
RECURSIVE InOrder(_, _, _, _)
InOrder(a, b, order_by, k) ==
    IF k > Len(order_by) THEN TRUE
    ELSE LET c == order_by[k]
         IN  IF a[c.column] = b[c.column] THEN InOrder(a, b, order_by, k + 1)
             ELSE IF c.order = "asc" THEN a[c.column] < b[c.column]
             ELSE a[c.column] > b[c.column]

\* The results the database can give for a query: the rows that meet every
\* condition, in an order that ORDER BY allows.
Execute(q) ==
    LET selected == {i \in DOMAIN QueryRows :
                        \A condition \in q.where : Matches(QueryRows[i], condition)}
    IN  {rows \in Orderings(selected) :
            \A i, j \in DOMAIN rows :
                i < j => InOrder(QueryRows[rows[i]], QueryRows[rows[j]], q.order_by, 1)}

FilterInputs ==
    {[status |-> 1], [status |-> NULL], [status |-> 1, priority |-> NULL],
     [status |-> NULL, priority |-> NULL], [priority |-> 2, nope |-> 1]}
SearchFieldInputs == {{}, {"title"}, {"title", "nope"}, {"nope"}}
SearchTermInputs == {None, Str(<<>>), Str(<<"f">>), Str(<<"I", "X">>)}
SortByInputs == {NullStr, "", "nope", "priority", "status"}
OrderInputs == {"asc", "desc", "DESC", "sideways"}

\* One call on the builder: self.query takes what the function returns, or the call
\* raises and self.query stays.
builder_call(call, result) ==
    /\ Cardinality(result.query.where) + Len(result.query.order_by) <= MaxClauses
    /\ builder' = [query |-> result.query, before |-> builder.query, call |-> call,
                   raised |-> result.raised]
    /\ UNCHANGED <<fixedVars, sprintVars, issueVars, deployVars, resp, pageVars, requests>>

builder_filter(kwargs) ==
    builder_call([op |-> "filter", kwargs |-> kwargs],
                 QueryBuilder_filter(builder.query, QueryModelFields, kwargs))

builder_search(search_fields, search_term) ==
    builder_call([op |-> "search", search_fields |-> search_fields,
                  search_term |-> search_term],
                 QueryBuilder_search(builder.query, QueryModelFields, search_fields,
                                     search_term))

builder_sort(sort_by, order) ==
    builder_call([op |-> "sort", sort_by |-> sort_by, order |-> order],
                 QueryBuilder_sort(builder.query, QueryModelFields, sort_by, order))

----
\* Issues (app/api/v1/issues.py, app/crud/issue.py).

IssueFields == {"project_id", "sprint_id", "key", "creator_id", "order"}
IssueIdInputs == 1..MaxIssues
SprintRefInputs == {NULL, 1}
ListPageInputs == {1, 2}
ListPageSizeInputs == {1, 20}

\* f"{project.key}-{next_number}", as the pair of its two parts.
IssueKey(project_id, number) == [project |-> project_id, number |-> number]

\* The key from the number of issues of the project, the fallback of
\* generate_issue_key for a last key it cannot parse, taken always.
generate_issue_key_by_count(project_id) ==
    IssueKey(project_id,
             Cardinality({i \in DOMAIN issues : issues[i].project_id = project_id}) + 1)

\* generate_issue_key(db, project_id): one more than the number in the key of the
\* project's issue with the greatest id, 1 for the first issue.
generate_issue_key(project_id) ==
    LET of_project == {i \in DOMAIN issues : issues[i].project_id = project_id}
        last_issue == CHOOSE i \in of_project : \A j \in of_project : j <= i
    IN  IF of_project = {} THEN IssueKey(project_id, 1)
        ELSE IssueKey(project_id, issues[last_issue].key.number + 1)

KeyTakenNever(issue_key) == FALSE

\* issues.key is unique: the commit of a row with a stored key raises IntegrityError.
KeyTaken(issue_key) == \E i \in DOMAIN issues : issues[i].key = issue_key

\* The sprint reference of an issue row breaks the foreign key.
SprintReferenceViolated(sprint_id) ==
    ForeignKeysEnforced /\ sprint_id # NULL /\ sprint_id \notin DOMAIN sprints

\* POST /issues
create_issue(user, project_id, sprint_id) ==
    /\ nextIssueId <= MaxIssues
    /\ IF project_id \notin projects
       THEN /\ resp' = Response("create_issue", 404, NULL, NULL)
            /\ UNCHANGED issueVars
       ELSE LET issue_key == generate_issue_key(project_id)
                db_issue == [project_id |-> project_id, sprint_id |-> sprint_id,
                             key |-> issue_key, creator_id |-> user, order |-> 0]
            IN  IF SprintReferenceViolated(sprint_id) \/ KeyTaken(issue_key)
                THEN /\ resp' = Response("create_issue", 500, NULL, NULL)
                     /\ UNCHANGED issueVars
                ELSE /\ issues' = Insert(issues, nextIssueId, db_issue)
                     /\ nextIssueId' = nextIssueId + 1
                     /\ resp' = Response("create_issue", 201, nextIssueId, NULL)
    /\ UNCHANGED <<fixedVars, sprintVars, deployVars, pageVars, requests, builder>>

\* The requests that run side by side, each with a session of its own.
RequestIds == 1..MaxRequests

\* POST /issues as one of several requests in flight, up to the point where the row
\* is built: the project is looked up and the key is generated from what is committed.
create_issue_begin(r, user, project_id, sprint_id) ==
    /\ r \notin DOMAIN requests
    /\ IF project_id \notin projects
       THEN /\ requests' = Insert(requests, r,
                  [op |-> "create_issue", pc |-> "done", code |-> 404,
                   project_id |-> project_id, key |-> IssueKey(project_id, NULL)])
            /\ resp' = Response("create_issue", 404, NULL, NULL)
       ELSE /\ UNCHANGED resp
            /\ requests' = Insert(requests, r,
                [op |-> "create_issue", pc |-> "commit", code |-> 0,
                 project_id |-> project_id,
                 db_issue |-> [project_id |-> project_id, sprint_id |-> sprint_id,
                               key |-> generate_issue_key(project_id),
                               creator_id |-> user, order |-> 0],
                 key |-> generate_issue_key(project_id)])
    /\ UNCHANGED <<fixedVars, sprintVars, issueVars, deployVars, pageVars, builder>>

\* The rest of that request: db.add, db.commit, db.refresh.
create_issue_commit(r) ==
    /\ r \in DOMAIN requests
    /\ requests[r].op = "create_issue" /\ requests[r].pc = "commit"
    /\ nextIssueId <= MaxIssues
    /\ LET db_issue == requests[r].db_issue
           done == [op |-> "create_issue", pc |-> "done", code |-> 0,
                    project_id |-> requests[r].project_id, key |-> requests[r].key]
       IN  IF SprintReferenceViolated(db_issue.sprint_id) \/ KeyTaken(db_issue.key)
           THEN /\ requests' = [requests EXCEPT ![r] = [done EXCEPT !.code = 500]]
                /\ resp' = Response("create_issue", 500, NULL, NULL)
                /\ UNCHANGED issueVars
           ELSE /\ issues' = Insert(issues, nextIssueId, db_issue)
                /\ nextIssueId' = nextIssueId + 1
                /\ requests' = [requests EXCEPT ![r] = [done EXCEPT !.code = 201]]
                /\ resp' = Response("create_issue", 201, nextIssueId, NULL)
    /\ UNCHANGED <<fixedVars, sprintVars, deployVars, pageVars, builder>>

\* PATCH /issues/{issue_id}/sprint
move_issue_to_sprint(issue_id, sprint_id) ==
    /\ IF issue_id \notin DOMAIN issues
       THEN /\ resp' = Response("move_issue_to_sprint", 404, issue_id, NULL)
            /\ UNCHANGED issues
       ELSE IF SprintReferenceViolated(sprint_id)
       THEN /\ resp' = Response("move_issue_to_sprint", 500, issue_id, NULL)
            /\ UNCHANGED issues
       ELSE /\ issues' = [issues EXCEPT ![issue_id].sprint_id = sprint_id]
            /\ resp' = Response("move_issue_to_sprint", 200, issue_id, NULL)
    /\ UNCHANGED <<fixedVars, sprintVars, nextIssueId, deployVars, pageVars, requests, builder>>

\* DELETE /issues/{issue_id}
delete_issue(issue_id) ==
    /\ IF issue_id \notin DOMAIN issues
       THEN /\ resp' = Response("delete_issue", 404, issue_id, NULL)
            /\ UNCHANGED issues
       ELSE /\ issues' = Remove(issues, {issue_id})
            /\ resp' = Response("delete_issue", 200, issue_id, NULL)
    /\ UNCHANGED <<fixedVars, sprintVars, nextIssueId, deployVars, pageVars, requests, builder>>

\* GET /issues/project/{project_id}/backlog
list_backlog(project_id, page, page_size) ==
    /\ IF ~(page >= 1 /\ page_size >= 1 /\ page_size <= 100)
       THEN /\ resp' = Response("list_backlog", 422, project_id, NULL)
            /\ UNCHANGED paged
       ELSE IF project_id \notin projects
       THEN /\ resp' = Response("list_backlog", 404, project_id, NULL)
            /\ UNCHANGED paged
       ELSE LET filters == [project_id |-> project_id, sprint_id |-> NULL]
                selected == apply_filters(issues, DOMAIN issues, IssueFields, filters)
            IN  \E q \in apply_sort(issues, selected, IssueFields, "order") :
                   /\ paged' = Paged("list_backlog", q, page, page_size, DefaultMaxPageSize)
                   /\ resp' = Response("list_backlog",
                                       IF paged'.result.error THEN 500 ELSE 200,
                                       project_id, NULL)
    /\ UNCHANGED <<fixedVars, sprintVars, issueVars, deployVars, query, listing, requests, builder>>

----
\* Sprints.

\* CRUDSprint.get_active_sprint: the rows .first() may return (the query has no
\* ORDER BY), or NULL when the project has no active sprint.
get_active_sprint(project_id) ==
    LET active == {s \in DOMAIN sprints :
                     /\ sprints[s].project_id = project_id
                     /\ sprints[s].status = "active"}
    IN  IF active = {} THEN {NULL} ELSE active

\* POST /sprints: CRUDBase.create with the SprintCreate body, any status.
create_sprint(project_id, status) ==
    /\ nextSprintId <= MaxSprints
    /\ \/ /\ project_id \notin projects
          /\ ForeignKeysEnforced
          /\ resp' = Response("create_sprint", 500, NULL, status)
          /\ UNCHANGED sprintVars
       \/ /\ project_id \in projects \/ ~ForeignKeysEnforced
          /\ ~create_raises("schema")
          /\ sprints' = Insert(sprints, nextSprintId,
                               [project_id |-> project_id, status |-> status])
          /\ nextSprintId' = nextSprintId + 1
          /\ resp' = Response("create_sprint", 201, nextSprintId, status)
    /\ UNCHANGED <<fixedVars, issueVars, deployVars, pageVars, requests, builder>>

\* PUT /sprints/{id}: CRUDBase.update with the fields the SprintUpdate body sets.
\* update_status is "unset" (field absent), NULL (explicit null) or a status.
update_sprint(sprint_id, update_status) ==
    /\ \/ /\ sprint_id \notin DOMAIN sprints
          /\ resp' = Response("update_sprint", 404, sprint_id, update_status)
          /\ UNCHANGED sprintVars
       \/ /\ sprint_id \in DOMAIN sprints
          /\ update_status = "unset"
          /\ resp' = Response("update_sprint", 200, sprint_id, update_status)
          /\ UNCHANGED sprintVars
       \/ /\ sprint_id \in DOMAIN sprints
          /\ update_status = "null"
          \* sprints.status is NOT NULL: the commit raises IntegrityError
          /\ resp' = Response("update_sprint", 500, sprint_id, update_status)
          /\ UNCHANGED sprintVars
       \/ /\ sprint_id \in DOMAIN sprints
          /\ update_status \in SprintStatus
          /\ sprints' = [sprints EXCEPT ![sprint_id].status = update_status]
          /\ resp' = Response("update_sprint", 200, sprint_id, update_status)
          /\ UNCHANGED nextSprintId
    /\ UNCHANGED <<fixedVars, issueVars, deployVars, pageVars, requests, builder>>

\* DELETE /sprints/{id}: CRUDBase.delete; Sprint.issues cascades "all, delete-orphan",
\* so the session deletes the sprint's issues with it.
delete_sprint(sprint_id) ==
    /\ \/ /\ sprint_id \notin DOMAIN sprints
          /\ resp' = Response("delete_sprint", 404, sprint_id, NULL)
          /\ UNCHANGED <<sprints, issues>>
       \/ /\ sprint_id \in DOMAIN sprints
          /\ sprints' = Remove(sprints, {sprint_id})
          /\ issues' = Remove(issues, {i \in DOMAIN issues : issues[i].sprint_id = sprint_id})
          /\ resp' = Response("delete_sprint", 200, sprint_id, NULL)
    /\ UNCHANGED <<fixedVars, nextSprintId, nextIssueId, deployVars, pageVars, requests, builder>>

\* The guard of start_sprint and update_sprint_status: another sprint is active.
ActiveConflict(active_sprint, sprint_id) ==
    active_sprint # NULL /\ active_sprint # sprint_id

\* POST /sprints/{id}/start
start_sprint(sprint_id) ==
    /\ \/ /\ sprint_id \notin DOMAIN sprints
          /\ resp' = Response("start_sprint", 404, sprint_id, "active")
          /\ UNCHANGED sprints
       \/ /\ sprint_id \in DOMAIN sprints
          /\ \E active_sprint \in get_active_sprint(sprints[sprint_id].project_id) :
                \/ /\ ActiveConflict(active_sprint, sprint_id)
                   /\ resp' = Response("start_sprint", 400, sprint_id, "active")
                   /\ UNCHANGED sprints
                \/ /\ ~ActiveConflict(active_sprint, sprint_id)
                   \* CRUDSprint.start_sprint
                   /\ sprints' = [sprints EXCEPT ![sprint_id].status = "active"]
                   /\ resp' = Response("start_sprint", 200, sprint_id, "active")
    /\ UNCHANGED <<fixedVars, nextSprintId, issueVars, deployVars, pageVars, requests, builder>>

\* POST /sprints/{id}/start as one of several requests in flight, up to the call of
\* CRUDSprint.start_sprint: the sprint is looked up and the active sprint of its
\* project is checked against what is committed.
start_sprint_begin(r, sprint_id) ==
    /\ r \notin DOMAIN requests
    /\ IF sprint_id \notin DOMAIN sprints
       THEN /\ requests' = Insert(requests, r,
                  [op |-> "start_sprint", pc |-> "done", code |-> 404,
                   sprint_id |-> sprint_id])
            /\ resp' = Response("start_sprint", 404, sprint_id, "active")
       ELSE \E active_sprint \in get_active_sprint(sprints[sprint_id].project_id) :
            IF ActiveConflict(active_sprint, sprint_id)
            THEN /\ requests' = Insert(requests, r,
                       [op |-> "start_sprint", pc |-> "done", code |-> 400,
                        sprint_id |-> sprint_id])
                 /\ resp' = Response("start_sprint", 400, sprint_id, "active")
            ELSE /\ requests' = Insert(requests, r,
                       [op |-> "start_sprint", pc |-> "commit", code |-> 0,
                        sprint_id |-> sprint_id])
                 /\ UNCHANGED resp
    /\ UNCHANGED <<fixedVars, sprintVars, issueVars, deployVars, pageVars, builder>>

\* The rest of that request: CRUDSprint.start_sprint reads the sprint again, sets
\* ACTIVE and commits; for a sprint that is gone it returns None, which is no
\* SprintResponse.
start_sprint_commit(r) ==
    /\ r \in DOMAIN requests
    /\ requests[r].op = "start_sprint" /\ requests[r].pc = "commit"
    /\ LET sprint_id == requests[r].sprint_id
       IN  IF sprint_id \notin DOMAIN sprints
           THEN /\ requests' = [requests EXCEPT ![r].pc = "done", ![r].code = 500]
                /\ resp' = Response("start_sprint", 500, sprint_id, "active")
                /\ UNCHANGED sprints
           ELSE /\ sprints' = [sprints EXCEPT ![sprint_id].status = "active"]
                /\ requests' = [requests EXCEPT ![r].pc = "done", ![r].code = 200]
                /\ resp' = Response("start_sprint", 200, sprint_id, "active")
    /\ UNCHANGED <<fixedVars, nextSprintId, issueVars, deployVars, pageVars, builder>>

complete_sprint_when_active(sprint_id) ==
    /\ \/ /\ sprint_id \notin DOMAIN sprints
          /\ resp' = Response("complete_sprint", 404, sprint_id, "completed")
          /\ UNCHANGED sprints
       \/ /\ sprint_id \in DOMAIN sprints
          /\ sprints[sprint_id].status # "active"
          /\ resp' = Response("complete_sprint", 400, sprint_id, "completed")
          /\ UNCHANGED sprints
       \/ /\ sprint_id \in DOMAIN sprints
          /\ sprints[sprint_id].status = "active"
          /\ sprints' = [sprints EXCEPT ![sprint_id].status = "completed"]
          /\ resp' = Response("complete_sprint", 200, sprint_id, "completed")
    /\ UNCHANGED <<fixedVars, nextSprintId, issueVars, deployVars, pageVars, requests, builder>>

\* POST /sprints/{id}/complete
complete_sprint(sprint_id) ==
    /\ \/ /\ sprint_id \notin DOMAIN sprints
          /\ resp' = Response("complete_sprint", 404, sprint_id, "completed")
          /\ UNCHANGED sprints
       \/ /\ sprint_id \in DOMAIN sprints
          \* CRUDSprint.complete_sprint
          /\ sprints' = [sprints EXCEPT ![sprint_id].status = "completed"]
          /\ resp' = Response("complete_sprint", 200, sprint_id, "completed")
    /\ UNCHANGED <<fixedVars, nextSprintId, issueVars, deployVars, pageVars, requests, builder>>

\* PATCH /sprints/{id}/status
update_sprint_status(sprint_id, status) ==
    /\ \/ /\ sprint_id \notin DOMAIN sprints
          /\ resp' = Response("update_sprint_status", 404, sprint_id, status)
          /\ UNCHANGED sprints
       \/ /\ sprint_id \in DOMAIN sprints
          /\ \E active_sprint \in get_active_sprint(sprints[sprint_id].project_id) :
                \/ /\ status = "active"
                   /\ ActiveConflict(active_sprint, sprint_id)
                   /\ resp' = Response("update_sprint_status", 400, sprint_id, status)
                   /\ UNCHANGED sprints
                \/ /\ ~(status = "active" /\ ActiveConflict(active_sprint, sprint_id))
                   /\ sprints' = [sprints EXCEPT ![sprint_id].status = status]
                   /\ resp' = Response("update_sprint_status", 200, sprint_id, status)
    /\ UNCHANGED <<fixedVars, nextSprintId, issueVars, deployVars, pageVars, requests, builder>>

----
\* Deployments.

DeploymentStatus == {"pending", "in_progress", "success", "failed", "rolled_back"}
DeploymentType == {"manual", "automatic", "rollback"}
TerminalStatus == {"success", "failed", "rolled_back"}
Versions == {"1.0.0", "2.0.0"}
DeploymentIdInputs == 1..MaxDeployments
ServiceIdInputs == {1, 2}
ErrorMessageInputs == {NullStr, "", "boom"}
NotesInputs == {NullStr, "Critical bug found"}

\* deployments.status is NOT NULL: the commit of such a row raises IntegrityError.
NotNullViolated(row) == row.status = NullStr

\* A row added through the ORM session, as the fixtures of the test suite do.
db_session_add_deployment(version, status) ==
    /\ nextDeploymentId <= MaxDeployments
    /\ deployments' = Insert(deployments, nextDeploymentId,
          [service_id |-> 1, deployed_by |-> 1, version |-> version,
           commit_hash |-> "a1b2c3", branch |-> "main", tag |-> NullStr,
           type |-> "manual", status |-> status, environment |-> "production",
           rollback_from_id |-> NULL, notes |-> NullStr, started_at |-> NULL,
           completed_at |-> NULL, error_message |-> NullStr,
           updated_at |-> SeedTime])
    /\ nextDeploymentId' = nextDeploymentId + 1
    /\ resp' = Response("db_session_add", 0, nextDeploymentId, NullStr)
    /\ UNCHANGED <<fixedVars, sprintVars, issueVars, clock, pageVars, requests, builder>>

\* POST /deployments: the handler dumps the DeploymentCreate body into a dict, adds
\* deployed_by and started_at and hands the dict to CRUDBase.create.
create_deployment(user, service_id, version, status) ==
    /\ \/ /\ service_id \notin services
          /\ resp' = Response("create_deployment", 404, NULL, user)
          /\ UNCHANGED deployVars
       \/ /\ service_id \in services
          /\ create_raises("dict")
          /\ resp' = Response("create_deployment", 500, NULL, user)
          /\ UNCHANGED deployVars
       \/ /\ service_id \in services
          /\ ~create_raises("dict")
          /\ nextDeploymentId <= MaxDeployments
          /\ clock <= MaxClock
          /\ deployments' = Insert(deployments, nextDeploymentId,
                [service_id |-> service_id, deployed_by |-> user, version |-> version,
                 commit_hash |-> NullStr, branch |-> NullStr, tag |-> NullStr,
                 type |-> "manual", status |-> status, environment |-> "production",
                 rollback_from_id |-> NULL, notes |-> NullStr, started_at |-> clock,
                 completed_at |-> NULL, error_message |-> NullStr,
                 updated_at |-> clock])
          /\ nextDeploymentId' = nextDeploymentId + 1
          /\ clock' = clock + 1
          /\ resp' = Response("create_deployment", 201, nextDeploymentId, user)
    /\ UNCHANGED <<fixedVars, sprintVars, issueVars, pageVars, requests, builder>>

\* The bodies of PUT /deployments/{id} the model sends: the fields set in
\* DeploymentUpdate (exclude_unset), an explicit null included.
DeploymentUpdateInputs ==
    {[f \in {} |-> NULL], [status |-> NullStr], [completed_at |-> NULL],
     [status |-> "success", completed_at |-> 1]}
        \cup {[status |-> s] : s \in DeploymentStatus}

\* PUT /deployments/{id}
update_deployment(deployment_id, deployment_in) ==
    /\ \/ /\ deployment_id \notin DOMAIN deployments
          /\ resp' = Response("update_deployment", 404, deployment_id, NullStr)
          /\ UNCHANGED <<deployments, clock>>
       \/ /\ deployment_id \in DOMAIN deployments
          /\ LET db_obj == deployments[deployment_id]
                 row == Flush(db_obj, ApplyUpdate(db_obj, deployment_in), clock)
             IN  IF NotNullViolated(row)
                 THEN /\ resp' = Response("update_deployment", 500, deployment_id, NullStr)
                      /\ UNCHANGED <<deployments, clock>>
                 ELSE /\ row # db_obj => clock <= MaxClock
                      /\ deployments' = [deployments EXCEPT ![deployment_id] = row]
                      /\ clock' = IF row # db_obj THEN clock + 1 ELSE clock
                      /\ resp' = Response("update_deployment", 200, deployment_id, NullStr)
    /\ UNCHANGED <<fixedVars, sprintVars, issueVars, nextDeploymentId, pageVars, requests, builder>>

\* DELETE /deployments/{id}; rollback_from_id is ON DELETE SET NULL.
delete_deployment(deployment_id) ==
    /\ \/ /\ deployment_id \notin DOMAIN deployments
          /\ resp' = Response("delete_deployment", 404, deployment_id, NullStr)
          /\ UNCHANGED deployments
       \/ /\ deployment_id \in DOMAIN deployments
          /\ deployments' =
                [d \in DOMAIN deployments \ {deployment_id} |->
                    IF ForeignKeysEnforced /\ deployments[d].rollback_from_id = deployment_id
                    THEN [deployments[d] EXCEPT !.rollback_from_id = NULL]
                    ELSE deployments[d]]
          /\ resp' = Response("delete_deployment", 200, deployment_id, NullStr)
    /\ UNCHANGED <<fixedVars, sprintVars, issueVars, nextDeploymentId, clock, pageVars, requests, builder>>

\* "error_message" as a condition: None and the empty string are false.
Truthy(error_message) == error_message \notin {NullStr, ""}

StatusUpdateDataStampingAlways(status, error_message, now) ==
    [status |-> status, completed_at |-> now]

\* The update_data dict of update_deployment_status.
StatusUpdateData(status, error_message, now) ==
    LET fields == {"status"}
                  \cup (IF status \in TerminalStatus THEN {"completed_at"} ELSE {})
                  \cup (IF status = "failed" /\ Truthy(error_message)
                        THEN {"error_message"} ELSE {})
    IN  [f \in fields |-> CASE f = "status" -> status
                            [] f = "completed_at" -> now
                            [] f = "error_message" -> error_message]

\* PATCH /deployments/{id}/status
update_deployment_status(deployment_id, status, error_message) ==
    /\ \/ /\ deployment_id \notin DOMAIN deployments
          /\ resp' = Response("update_deployment_status", 404, deployment_id, status)
          /\ UNCHANGED <<deployments, clock>>
       \/ /\ deployment_id \in DOMAIN deployments
          /\ LET db_obj == deployments[deployment_id]
                 update_data == StatusUpdateData(status, error_message, clock)
                 row == Flush(db_obj, ApplyUpdate(db_obj, update_data), clock)
             IN  /\ row # db_obj => clock <= MaxClock
                 /\ deployments' = [deployments EXCEPT ![deployment_id] = row]
                 /\ clock' = IF row # db_obj THEN clock + 1 ELSE clock
          /\ resp' = Response("update_deployment_status", 200, deployment_id, status)
    /\ UNCHANGED <<fixedVars, sprintVars, issueVars, nextDeploymentId, pageVars, requests, builder>>

\* The guard of rollback_deployment on the target's status.
RollbackAllowedMutant(status) == status \in {"success", "failed"}
RollbackAllowed(status) == status = "success"

\* The row rollback_deployment builds from its target.
RollbackData(user, deployment_id, target, notes, now) ==
    [service_id |-> target.service_id, deployed_by |-> user, version |-> target.version,
     commit_hash |-> target.commit_hash, branch |-> target.branch, tag |-> target.tag,
     type |-> "rollback", status |-> "pending", environment |-> target.environment,
     rollback_from_id |-> deployment_id,
     notes |-> IF notes # NullStr THEN notes ELSE "Rollback to deployment",
     started_at |-> now, completed_at |-> NULL, error_message |-> NullStr,
     updated_at |-> now]

\* POST /deployments/{id}/rollback, with the target marked rolled_back first.
rollback_deployment_marking_target(user, deployment_id, notes) ==
    /\ \/ /\ deployment_id \notin DOMAIN deployments
          /\ resp' = Response("rollback_deployment", 404, deployment_id, user)
          /\ UNCHANGED deployVars
       \/ /\ deployment_id \in DOMAIN deployments
          /\ ~RollbackAllowed(deployments[deployment_id].status)
          /\ resp' = Response("rollback_deployment", 400, deployment_id, user)
          /\ UNCHANGED deployVars
       \/ /\ deployment_id \in DOMAIN deployments
          /\ RollbackAllowed(deployments[deployment_id].status)
          /\ deployments' = [deployments EXCEPT ![deployment_id].status = "rolled_back"]
          /\ resp' = Response("rollback_deployment", 500, deployment_id, user)
          /\ UNCHANGED <<nextDeploymentId, clock>>
    /\ UNCHANGED <<fixedVars, sprintVars, issueVars, pageVars, requests, builder>>

\* POST /deployments/{id}/rollback
rollback_deployment(user, deployment_id, notes) ==
    /\ \/ /\ deployment_id \notin DOMAIN deployments
          /\ resp' = Response("rollback_deployment", 404, deployment_id, user)
          /\ UNCHANGED deployVars
       \/ /\ deployment_id \in DOMAIN deployments
          /\ ~RollbackAllowed(deployments[deployment_id].status)
          /\ resp' = Response("rollback_deployment", 400, deployment_id, user)
          /\ UNCHANGED deployVars
       \/ /\ deployment_id \in DOMAIN deployments
          /\ RollbackAllowed(deployments[deployment_id].status)
          /\ create_raises("dict")
          /\ resp' = Response("rollback_deployment", 500, deployment_id, user)
          /\ UNCHANGED deployVars
       \/ /\ deployment_id \in DOMAIN deployments
          /\ RollbackAllowed(deployments[deployment_id].status)
          /\ ~create_raises("dict")
          /\ nextDeploymentId <= MaxDeployments
          /\ clock <= MaxClock
          /\ deployments' = Insert(deployments, nextDeploymentId,
                RollbackData(user, deployment_id, deployments[deployment_id], notes, clock))
          /\ nextDeploymentId' = nextDeploymentId + 1
          /\ clock' = clock + 1
          /\ resp' = Response("rollback_deployment", 201, deployment_id, user)
    /\ UNCHANGED <<fixedVars, sprintVars, issueVars, pageVars, requests, builder>>

----
\* Projects (app/api/v1/projects.py, app/crud/project.py).

get_by_key_none(key) == {}

\* crud_project.get_by_key(db, key): the projects with that key (the key in upper
\* case, which a key accepted by ProjectCreate already is).
get_by_key(key) == {p \in projects : project_rows[p].key = key}

\* POST /projects
create_project(user, key, team_id) ==
    /\ nextProjectId \in ProjectIdInputs
    /\ IF get_by_key(key) # {}
       THEN /\ resp' = Response("create_project", 400, NULL, key)
            /\ UNCHANGED projectVars
       ELSE IF \/ ForeignKeysEnforced /\ team_id \notin DOMAIN teams
               \/ \E p \in projects : project_rows[p].key = key
       THEN /\ resp' = Response("create_project", 500, NULL, key)
            /\ UNCHANGED projectVars
       ELSE /\ ~create_raises("schema")
            /\ projects' = projects \cup {nextProjectId}
            /\ project_rows' = Insert(project_rows, nextProjectId,
                                      [key |-> key, team_id |-> team_id])
            /\ nextProjectId' = nextProjectId + 1
            /\ resp' = Response("create_project", 201, nextProjectId, key)
    /\ UNCHANGED <<dialect, services, teamVars, sprintVars, issueVars, deployVars, pageVars, requests, builder>>

\* What db.delete leaves of the sprints and of the issues when the projects ps go:
\* the ORM follows Project.sprints, Project.issues and Sprint.issues (all of them
\* cascade="all, delete-orphan").
SprintsAfterDelete(ps) ==
    Remove(sprints, {sp \in DOMAIN sprints : sprints[sp].project_id \in ps})
IssuesAfterDelete(ps) ==
    Remove(issues, {i \in DOMAIN issues :
                      \/ issues[i].project_id \in ps
                      \/ /\ issues[i].sprint_id \in DOMAIN sprints
                         /\ sprints[issues[i].sprint_id].project_id \in ps})

\* DELETE /projects/{project_id}
delete_project(project_id) ==
    /\ IF project_id \notin projects
       THEN /\ resp' = Response("delete_project", 404, project_id, NULL)
            /\ UNCHANGED <<projects, project_rows, sprints, issues>>
       ELSE /\ projects' = projects \ {project_id}
            /\ project_rows' = Remove(project_rows, {project_id})
            /\ sprints' = SprintsAfterDelete({project_id})
            /\ issues' = IssuesAfterDelete({project_id})
            /\ resp' = Response("delete_project", 200, project_id, NULL)
    /\ UNCHANGED <<dialect, services, nextProjectId, teamVars, nextSprintId, nextIssueId,
                   deployVars, pageVars, requests, builder>>

----
\* Teams (app/api/v1/teams.py, app/crud/team.py).

TeamRole == {"owner", "admin", "member", "viewer"}
TeamNames == {"Backend", "Mobile"}
UserIdInputs == 1..(MaxUsers + 1)
MemberIdsInputs == {<<>>, <<2>>, <<1, 2>>, <<MaxUsers + 1>>}

\* create_slug(name): lower case, runs of other characters turned into "-".
create_slug(name) == CASE name = "Backend" -> "backend"
                       [] name = "Mobile" -> "mobile"

\* crud_team.get_by_name(db, name): the teams with that name.
get_by_name(name) == {t \in DOMAIN teams : teams[t].name = name}

\* The rows of a user in a team; .first() returns one of them.
MembershipsOf(team_id, user_id) ==
    {m \in DOMAIN team_members :
        team_members[m].team_id = team_id /\ team_members[m].user_id = user_id}

is_member_never(team_id, user_id) == FALSE

\* crud_team.is_member(db, team_id, user_id)
is_member(team_id, user_id) == MembershipsOf(team_id, user_id) # {}

\* crud_team.has_role(db, team_id, user_id, role): the answers it can give.
has_role(team_id, user_id, role) ==
    IF MembershipsOf(team_id, user_id) = {} THEN {FALSE}
    ELSE {team_members[m].role = role : m \in MembershipsOf(team_id, user_id)}

\* crud_team.add_member on the tables (members, next id).
add_member(members, next, team_id, user_id, role) ==
    [members |-> Insert(members, next, [team_id |-> team_id, user_id |-> user_id,
                                        role |-> role]),
     next |-> next + 1]

\* The loop of create_team over member_ids: the creator and unknown users are
\* skipped, a user already in the team is not added again.
RECURSIVE add_initial_members(_, _, _, _, _)
add_initial_members(state, team_id, creator, member_ids, k) ==
    IF k > Len(member_ids) THEN state
    ELSE LET user_id == member_ids[k]
             present == \E m \in DOMAIN state.members :
                           /\ state.members[m].team_id = team_id
                           /\ state.members[m].user_id = user_id
             next_state == IF user_id = creator \/ user_id \notin Users \/ present
                           THEN state
                           ELSE add_member(state.members, state.next, team_id,
                                           user_id, "member")
         IN  add_initial_members(next_state, team_id, creator, member_ids, k + 1)

\* POST /teams: the handler dumps the TeamCreate body into a dict and hands the dict
\* to CRUDBase.create; after it, the owner and each initial member are committed one
\* by one, and the handler returns the team only inside "if team_in.member_ids".
create_team(user, name, slug_in, member_ids) ==
    /\ IF get_by_name(name) # {}
       THEN /\ resp' = Response("create_team", 400, NULL, name)
            /\ UNCHANGED teamVars
       ELSE IF create_raises("dict")
       THEN /\ resp' = Response("create_team", 500, NULL, name)
            /\ UNCHANGED teamVars
       ELSE LET slug == IF slug_in = NullStr THEN create_slug(name) ELSE slug_in
            IN  IF \E t \in DOMAIN teams : teams[t].slug = slug
                THEN /\ resp' = Response("create_team", 500, NULL, name)
                     /\ UNCHANGED teamVars
                ELSE LET owned == add_member(team_members, nextMemberId, nextTeamId,
                                            user, "owner")
                         final == add_initial_members(owned, nextTeamId, user,
                                                      member_ids, 1)
                     IN  /\ nextTeamId \in TeamIdInputs
                         /\ final.next <= MaxMembers + 1
                         /\ teams' = Insert(teams, nextTeamId,
                                            [name |-> name, slug |-> slug])
                         /\ nextTeamId' = nextTeamId + 1
                         /\ team_members' = final.members
                         /\ nextMemberId' = final.next
                         /\ resp' = Response("create_team",
                                             IF member_ids = <<>> THEN 500 ELSE 201,
                                             nextTeamId, name)
    /\ UNCHANGED <<dialect, services, projectVars, sprintVars, issueVars, deployVars,
                   pageVars, requests, builder>>

\* The role checks of the handlers, on the answers of has_role for owner and admin.
OwnerOrAdmin(owner, admin) == owner \/ admin
OwnerOnly(owner, admin) == owner

\* DELETE /teams/{team_id}; db.delete follows Team.members and Team.projects.
delete_team(user, team_id) ==
    /\ IF team_id \notin DOMAIN teams
       THEN /\ resp' = Response("delete_team", 404, team_id, user)
            /\ UNCHANGED <<teams, team_members, projects, project_rows, sprints, issues>>
       ELSE \E owner \in has_role(team_id, user, "owner"),
               admin \in has_role(team_id, user, "admin") :
            IF ~OwnerOnly(owner, admin)
            THEN /\ resp' = Response("delete_team", 400, team_id, user)
                 /\ UNCHANGED <<teams, team_members, projects, project_rows, sprints, issues>>
            ELSE LET ps == {p \in projects : project_rows[p].team_id = team_id}
                 IN  /\ teams' = Remove(teams, {team_id})
                     /\ team_members' = Remove(team_members,
                           {m \in DOMAIN team_members : team_members[m].team_id = team_id})
                     /\ projects' = projects \ ps
                     /\ project_rows' = Remove(project_rows, ps)
                     /\ sprints' = SprintsAfterDelete(ps)
                     /\ issues' = IssuesAfterDelete(ps)
                     /\ resp' = Response("delete_team", 200, team_id, user)
    /\ UNCHANGED <<dialect, services, nextProjectId, nextTeamId, nextMemberId,
                   nextSprintId, nextIssueId, deployVars, pageVars, requests, builder>>

\* POST /teams/{team_id}/members
add_team_member(user, team_id, user_id, role) ==
    /\ IF team_id \notin DOMAIN teams
       THEN /\ resp' = Response("add_team_member", 404, team_id, user_id)
            /\ UNCHANGED <<team_members, nextMemberId>>
       ELSE \E owner \in has_role(team_id, user, "owner"),
               admin \in has_role(team_id, user, "admin") :
            IF ~OwnerOrAdmin(owner, admin)
            THEN /\ resp' = Response("add_team_member", 400, team_id, user_id)
                 /\ UNCHANGED <<team_members, nextMemberId>>
            ELSE IF user_id \notin Users
            THEN /\ resp' = Response("add_team_member", 404, team_id, user_id)
                 /\ UNCHANGED <<team_members, nextMemberId>>
            ELSE IF is_member(team_id, user_id)
            THEN /\ resp' = Response("add_team_member", 400, team_id, user_id)
                 /\ UNCHANGED <<team_members, nextMemberId>>
            ELSE LET added == add_member(team_members, nextMemberId, team_id,
                                        user_id, role)
                 IN  /\ nextMemberId <= MaxMembers
                     /\ team_members' = added.members
                     /\ nextMemberId' = added.next
                     /\ resp' = Response("add_team_member", 201, team_id, user_id)
    /\ UNCHANGED <<dialect, services, teams, nextTeamId, projectVars, sprintVars,
                   issueVars, deployVars, pageVars, requests, builder>>

\* The "Cannot remove team owner" check, on the answer of has_role for the target.
CannotRemoveNobody(target_owner) == FALSE
CannotRemove(target_owner) == target_owner

\* DELETE /teams/{team_id}/members/{user_id}
remove_team_member(user, team_id, user_id) ==
    /\ IF team_id \notin DOMAIN teams
       THEN /\ resp' = Response("remove_team_member", 404, team_id, user_id)
            /\ UNCHANGED team_members
       ELSE \E owner \in has_role(team_id, user, "owner"),
               admin \in has_role(team_id, user, "admin"),
               target_owner \in has_role(team_id, user_id, "owner") :
            IF ~OwnerOrAdmin(owner, admin)
            THEN /\ resp' = Response("remove_team_member", 400, team_id, user_id)
                 /\ UNCHANGED team_members
            ELSE IF ~is_member(team_id, user_id)
            THEN /\ resp' = Response("remove_team_member", 404, team_id, user_id)
                 /\ UNCHANGED team_members
            ELSE IF CannotRemove(target_owner)
            THEN /\ resp' = Response("remove_team_member", 400, team_id, user_id)
                 /\ UNCHANGED team_members
            ELSE \E m \in MembershipsOf(team_id, user_id) :
                 /\ team_members' = Remove(team_members, {m})
                 /\ resp' = Response("remove_team_member", 200, team_id, user_id)
    /\ UNCHANGED <<dialect, services, teams, nextTeamId, nextMemberId, projectVars,
                   sprintVars, issueVars, deployVars, pageVars, requests, builder>>

\* PATCH /teams/{team_id}/members/{user_id}/role
update_member_role(user, team_id, user_id, role) ==
    /\ IF team_id \notin DOMAIN teams
       THEN /\ resp' = Response("update_member_role", 404, team_id, user_id)
            /\ UNCHANGED team_members
       ELSE \E owner \in has_role(team_id, user, "owner"),
               admin \in has_role(team_id, user, "admin") :
            IF ~OwnerOnly(owner, admin)
            THEN /\ resp' = Response("update_member_role", 400, team_id, user_id)
                 /\ UNCHANGED team_members
            ELSE IF ~is_member(team_id, user_id)
            THEN /\ resp' = Response("update_member_role", 404, team_id, user_id)
                 /\ UNCHANGED team_members
            ELSE \E m \in MembershipsOf(team_id, user_id) :
                 /\ team_members' = [team_members EXCEPT ![m].role = role]
                 /\ resp' = Response("update_member_role", 200, team_id, user_id)
    /\ UNCHANGED <<dialect, services, teams, nextTeamId, nextMemberId, projectVars,
                   sprintVars, issueVars, deployVars, pageVars, requests, builder>>

----
InitTables ==
    /\ dialect \in Dialects
    /\ projects = 1..MaxProjects
    /\ project_rows = [p \in 1..MaxProjects |-> [key |-> ProjectKeys[p], team_id |-> 1]]
    /\ nextProjectId = MaxProjects + 1
    /\ teams = Insert(EmptyTable, 1, [name |-> "Backend", slug |-> "backend"])
    /\ nextTeamId = 2
    /\ team_members = Insert(EmptyTable, 1, [team_id |-> 1, user_id |-> 1, role |-> "owner"])
    /\ nextMemberId = 2
    /\ services = {1}
    /\ sprints = EmptyTable
    /\ nextSprintId = 1
    /\ issues = EmptyTable
    /\ nextIssueId = 1
    /\ deployments = EmptyTable
    /\ nextDeploymentId = 1
    /\ clock = 1
    /\ resp = Response("none", 0, NULL, NULL)
    /\ paged = NotPaged
    /\ listing = NoListing
    /\ requests = EmptyTable
    /\ builder = [query |-> EmptyQuery, before |-> EmptyQuery, call |-> [op |-> "new"],
                  raised |-> FALSE]

Init == InitTables /\ query = <<>>

NextSprint ==
    \/ \E p \in ProjectIdInputs, s \in SprintStatus : create_sprint(p, s)
    \/ \E id \in SprintIdInputs, s \in SprintStatus \cup {"unset", "null"} : update_sprint(id, s)
    \/ \E id \in SprintIdInputs : delete_sprint(id)
    \/ \E id \in SprintIdInputs : start_sprint(id)
    \/ \E id \in SprintIdInputs : complete_sprint(id)
    \/ \E id \in SprintIdInputs, s \in SprintStatus : update_sprint_status(id, s)

SpecSprint == Init /\ [][NextSprint]_vars

NextRollback ==
    \/ \E v \in Versions, s \in DeploymentStatus : db_session_add_deployment(v, s)
    \/ \E u \in Users, sv \in ServiceIdInputs, v \in Versions, s \in DeploymentStatus :
          create_deployment(u, sv, v, s)
    \/ \E id \in DeploymentIdInputs : delete_deployment(id)
    \/ \E u \in Users, id \in DeploymentIdInputs, n \in NotesInputs : rollback_deployment(u, id, n)

SpecRollback == Init /\ [][NextRollback]_vars

NextDeployUpdate ==
    \/ \E s \in DeploymentStatus : db_session_add_deployment("1.0.0", s)
    \/ \E id \in DeploymentIdInputs, deployment_in \in DeploymentUpdateInputs :
          update_deployment(id, deployment_in)
    \/ \E id \in DeploymentIdInputs, s \in DeploymentStatus, m \in ErrorMessageInputs :
          update_deployment_status(id, s, m)

SpecDeployUpdate == Init /\ [][NextDeployUpdate]_vars

NextDeployStatus ==
    \/ db_session_add_deployment("1.0.0", "pending")
    \/ \E id \in DeploymentIdInputs, s \in DeploymentStatus, m \in ErrorMessageInputs :
          update_deployment_status(id, s, m)

SpecDeployStatus == Init /\ [][NextDeployStatus]_vars

NextDeployOps ==
    \/ db_session_add_deployment("1.0.0", "pending")
    \/ \E sv \in ServiceIdInputs, s \in DeploymentStatus : create_deployment(1, sv, "1.0.0", s)
    \/ \E id \in DeploymentIdInputs, deployment_in \in DeploymentUpdateInputs :
          update_deployment(id, deployment_in)
    \/ \E id \in DeploymentIdInputs, s \in DeploymentStatus :
          update_deployment_status(id, s, NullStr)
    \/ \E id \in DeploymentIdInputs : rollback_deployment(1, id, NullStr)

SpecDeployOps == Init /\ [][NextDeployOps]_vars

InitPaginate ==
    /\ InitTables
    /\ query \in {SortedSeq(S) : S \in SUBSET (1..MaxRows)}

NextPaginate ==
    \/ \E p \in PageInputs, ps \in PageSizeInputs, m \in MaxPageSizeInputs : paginate_call(p, ps, m)
    \/ \E m \in MaxPageSizeInputs : \E ps \in 1..Min(m, MaxRows + 1) : start_listing(ps, m)
    \/ next_page

SpecPaginate == InitPaginate /\ [][NextPaginate]_vars

NextBacklog ==
    \/ \E p \in projects : create_sprint(p, "planned")
    \/ \E p \in ProjectIdInputs, s \in SprintRefInputs : create_issue(1, p, s)
    \/ \E i \in IssueIdInputs, s \in SprintRefInputs : move_issue_to_sprint(i, s)
    \/ \E p \in ProjectIdInputs, pg \in ListPageInputs, ps \in ListPageSizeInputs :
          list_backlog(p, pg, ps)

SpecBacklog == Init /\ [][NextBacklog]_vars

NextQuery ==
    \/ \E kwargs \in FilterInputs : builder_filter(kwargs)
    \/ \E f \in SearchFieldInputs, t \in SearchTermInputs : builder_search(f, t)
    \/ \E s \in SortByInputs, o \in OrderInputs : builder_sort(s, o)

SpecQuery == Init /\ [][NextQuery]_vars

NextSprintRace ==
    \/ \E p \in projects : create_sprint(p, "planned")
    \/ \E r \in RequestIds, id \in SprintIdInputs : start_sprint_begin(r, id)
    \/ \E r \in RequestIds : start_sprint_commit(r)
    \/ \E id \in SprintIdInputs : delete_sprint(id)

SpecSprintRace == Init /\ [][NextSprintRace]_vars

NextSprintDelete ==
    \/ \E p \in projects : create_sprint(p, "planned")
    \/ \E p \in ProjectIdInputs, s \in SprintRefInputs : create_issue(1, p, s)
    \/ \E id \in SprintIdInputs : delete_sprint(id)

SpecSprintDelete == Init /\ [][NextSprintDelete]_vars

NextSprintComplete ==
    \/ \E p \in projects, s \in SprintStatus : create_sprint(p, s)
    \/ \E p \in projects, s \in SprintRefInputs : create_issue(1, p, s)
    \/ \E id \in SprintIdInputs : complete_sprint(id)

SpecSprintComplete == Init /\ [][NextSprintComplete]_vars

NextIssueKeys ==
    \/ \E u \in Users, p \in ProjectIdInputs, s \in SprintRefInputs : create_issue(u, p, s)
    \/ \E i \in IssueIdInputs : delete_issue(i)

SpecIssueKeys == Init /\ [][NextIssueKeys]_vars

NextIssueRace ==
    \/ \E r \in RequestIds, u \in Users, p \in ProjectIdInputs, s \in SprintRefInputs :
          create_issue_begin(r, u, p, s)
    \/ \E r \in RequestIds : create_issue_commit(r)

SpecIssueRace == Init /\ [][NextIssueRace]_vars

NextProject ==
    \/ \E k \in ProjectKeyInputs, t \in TeamIdInputs : create_project(1, k, t)
    \/ \E p \in ProjectIdInputs : delete_project(p)
    \/ \E p \in projects : create_sprint(p, "planned")
    \/ \E p \in projects, s \in SprintRefInputs : create_issue(1, p, s)
    \/ \E i \in IssueIdInputs, s \in SprintRefInputs : move_issue_to_sprint(i, s)

SpecProject == Init /\ [][NextProject]_vars

NextProjectKeys ==
    \/ \E k \in ProjectKeyInputs, t \in TeamIdInputs : create_project(1, k, t)
    \/ \E p \in ProjectIdInputs : delete_project(p)
    \/ \E p \in projects : create_sprint(p, "planned")

SpecProjectKeys == Init /\ [][NextProjectKeys]_vars

NextTeam ==
    \/ \E u \in Users, n \in TeamNames, m \in MemberIdsInputs :
          create_team(u, n, NullStr, m)
    \/ \E u \in Users, t \in TeamIdInputs : delete_team(u, t)
    \/ \E u \in Users, t \in TeamIdInputs, x \in UserIdInputs, r \in TeamRole :
          add_team_member(u, t, x, r)
    \/ \E u \in Users, t \in TeamIdInputs, x \in UserIdInputs :
          remove_team_member(u, t, x)
    \/ \E u \in Users, t \in TeamIdInputs, x \in UserIdInputs, r \in TeamRole :
          update_member_role(u, t, x, r)

SpecTeam == Init /\ [][NextTeam]_vars

----
\* Claims about sprints.

ActiveSprintsOf(p) ==
    {s \in DOMAIN sprints : sprints[s].project_id = p /\ sprints[s].status = "active"}

\* C1: after any sequence of sprint operations (create with any status, PUT update
\* with a status, start, complete, status update, delete) every project has at most
\* one sprint whose status is active.
C1_SingleActiveSprint ==
    \A p \in projects : Cardinality(ActiveSprintsOf(p)) <= 1

\* The request answered by resp' asked to make sprint resp'.id active while the
\* project of that sprint had an active sprint other than it.
ActivatesSecondSprint ==
    /\ resp'.op \in {"start_sprint", "update_sprint_status"}
    /\ resp'.arg = "active"
    /\ resp'.id \in DOMAIN sprints
    /\ sprints[resp'.id].project_id \in projects
    /\ ActiveSprintsOf(sprints[resp'.id].project_id) \ {resp'.id} # {}

\* C2: when a project already has an active sprint A, start(B) and
\* update_sprint_status(B, active) for any other sprint B of the project are rejected
\* with the conflict error (BadRequestError, 400) and no sprint status changes.
C2_SecondActivationRejected ==
    [][ActivatesSecondSprint => (resp'.code = 400 /\ sprints' = sprints)]_vars

----
\* Claims about deployments.

\* The request answered by resp' was a rollback to the existing deployment resp'.id.
RollbackOfExisting ==
    /\ resp'.op = "rollback_deployment"
    /\ resp'.id \in DOMAIN deployments

\* C3: rollback against a deployment whose status is pending, in_progress, failed or
\* rolled_back is answered with a bad request (400) and the set of deployment rows
\* is the same after the request as before it.
C3_RollbackRefused ==
    [][(RollbackOfExisting /\ deployments[resp'.id].status # "success")
       => (resp'.code = 400 /\ DOMAIN deployments' = DOMAIN deployments)]_vars

C3_Witness ==
    /\ resp.op = "rollback_deployment"
    /\ resp.code = 400
    /\ resp.id \in DOMAIN deployments
    /\ deployments[resp.id].status = "failed"

\* C4: rollback against an existing deployment T with status success succeeds (201)
\* and adds exactly one row D with type rollback, status pending, rollback_from_id
\* T.id, deployed_by the acting user, and T's service_id, environment, version,
\* commit_hash, branch and tag.
C4_RollbackCreates ==
    [][(RollbackOfExisting /\ deployments[resp'.id].status = "success")
       => /\ resp'.code = 201
          /\ \E new \in DOMAIN deployments' \ DOMAIN deployments :
                LET D == deployments'[new]
                    T == deployments[resp'.id]
                IN  /\ DOMAIN deployments' = DOMAIN deployments \cup {new}
                    /\ D.type = "rollback" /\ D.status = "pending"
                    /\ D.rollback_from_id = resp'.id
                    /\ D.deployed_by = resp'.arg
                    /\ D.service_id = T.service_id /\ D.environment = T.environment
                    /\ D.version = T.version /\ D.commit_hash = T.commit_hash
                    /\ D.branch = T.branch /\ D.tag = T.tag]_vars

\* C5: a rollback request, whether it succeeds or fails, leaves every field of the
\* target deployment and of every other pre-existing deployment unchanged.
C5_RollbackKeepsRows ==
    [][resp'.op = "rollback_deployment"
       => \A d \in DOMAIN deployments :
             d \in DOMAIN deployments' /\ deployments'[d] = deployments[d]]_vars

C5_Witness ==
    /\ resp.op = "rollback_deployment"
    /\ resp.code = 500
    /\ resp.id \in DOMAIN deployments
    /\ deployments[resp.id].status = "success"
    /\ Cardinality(DOMAIN deployments) >= 2

----
\* Claims about pagination.

\* The least k with k * p >= n: the ceiling of n / p for p >= 1.
CeilingOf(n, p) == CHOOSE k \in 0..n : k * p >= n /\ (k = 0 \/ (k - 1) * p < n)

\* C6: for a query with N rows sorted by a unique key and a page size P with
\* 1 <= P <= max_page_size, total_pages is the ceiling of N / P and the items of pages
\* 1..total_pages, one after another, are the rows of the query, each once.
C6_PagesCoverRows ==
    listing.state = "done"
        => /\ listing.acc = query
           /\ listing.total_pages = CeilingOf(Len(query), listing.page_size)

C6_Witness ==
    /\ listing.state = "done"
    /\ listing.page_size = 2
    /\ Len(query) = 3
    /\ listing.total_pages = 2
    /\ listing.cursor = 3

\* The paginate call that paged shows ended without a database error.
PaginateReturned == paged.op = "paginate" /\ ~paged.result.error

\* C7: the meta that paginate returns has the fields page, page_size, total,
\* total_pages, has_next and has_prev, with has_next = (page < total_pages) and
\* has_prev = (page > 1).
C7_MetaFields ==
    PaginateReturned
        => LET meta == paged.result.meta
           IN  /\ DOMAIN meta = {"page", "page_size", "total", "total_pages",
                                 "has_next", "has_prev"}
               /\ meta.has_next = (meta.page < meta.total_pages)
               /\ meta.has_prev = (meta.page > 1)

\* C8: for all integers page and page_size, paginate uses page max(page, 1) and
\* page size min(page_size, max_page_size), never returns more than max_page_size
\* items and never computes a negative offset.
C8_ClampedRequest ==
    paged.op = "paginate"
        => /\ ~paged.result.error
           /\ paged.result.meta.page = Max(paged.page, 1)
           /\ paged.result.meta.page_size = Min(paged.page_size, paged.max_page_size)
           /\ Len(paged.result.items) <= paged.max_page_size
           /\ paged.result.skip >= 0

\* The paginate call that paged shows asked for a page after the last one, the
\* last one being the total_pages that paginate computes.
PageOutOfRange ==
    /\ paged.op = "paginate"
    /\ ClampPage(paged.page) >
          TotalPages(Len(paged.rows), ClampPageSize(paged.page_size, paged.max_page_size))

\* C9: a request for a page greater than total_pages (any page on an empty result
\* set included) is not an error: it returns no items, and a meta with the number
\* of rows as total and the number of pages as total_pages.
C9_PageOutOfRange ==
    PageOutOfRange
        => /\ ~paged.result.error
           /\ paged.result.items = <<>>
           /\ paged.result.meta.total = Len(paged.rows)
           /\ paged.result.meta.page_size >= 1
                 => paged.result.meta.total_pages =
                       CeilingOf(Len(paged.rows), paged.result.meta.page_size)

----
\* Claims about the backlog.

BacklogOf(p) ==
    {i \in DOMAIN issues : issues[i].project_id = p /\ issues[i].sprint_id = NULL}

Range(q) == {q[i] : i \in DOMAIN q}

\* C10: the backlog listing of a project returns exactly the issues of the project
\* whose sprint_id is null (none that is assigned to a sprint), and meta.total is
\* the number of those issues.
C10_BacklogOnly ==
    (resp.op = "list_backlog" /\ resp.code = 200)
        => /\ Range(paged.rows) = BacklogOf(resp.id)
           /\ Range(paged.result.items) \subseteq BacklogOf(resp.id)
           /\ paged.result.meta.total = Cardinality(BacklogOf(resp.id))

----
\* Claims about the transitions of a sprint.

\* C22: start makes a sprint active only when its status is planned: starting a
\* completed or cancelled sprint does not make it active.
C22_StartOnlyPlanned ==
    [][(/\ resp'.op = "start_sprint"
        /\ resp'.id \in DOMAIN sprints
        /\ sprints[resp'.id].status \in {"completed", "cancelled"})
       => sprints'[resp'.id].status # "active"]_vars

\* C23: complete on an existing sprint answers with the sprint completed, whatever
\* its status was, and changes no other sprint and no issue; on an id without a
\* sprint it answers 404 and changes nothing.
C23_CompleteUnconditional ==
    [][resp'.op = "complete_sprint"
       => /\ issues' = issues
          /\ IF resp'.id \in DOMAIN sprints
             THEN /\ resp'.code = 200
                  /\ sprints' = [sprints EXCEPT ![resp'.id].status = "completed"]
             ELSE /\ resp'.code = 404
                  /\ sprints' = sprints]_vars

\* A sprint that was not active has been completed.
C23_Witness ==
    /\ resp.op = "complete_sprint" /\ resp.code = 200
    /\ sprints[resp.id].status = "completed"
    /\ \E other \in DOMAIN sprints \ {resp.id} : sprints[other].status = "active"
    /\ \E i \in DOMAIN issues : issues[i].sprint_id = resp.id

\* C24: deleting a sprint keeps each issue that was assigned to it, with sprint_id
\* null, and the number of issues of the project stays what it was.
C24_DeleteSprintKeepsIssues ==
    [][(resp'.op = "delete_sprint" /\ resp'.code = 200)
       => /\ \A i \in DOMAIN issues :
                issues[i].sprint_id = resp'.id
                => (i \in DOMAIN issues' /\ issues'[i].sprint_id = NULL)
          /\ \A q \in projects :
                Cardinality({i \in DOMAIN issues' : issues'[i].project_id = q})
                = Cardinality({i \in DOMAIN issues : issues[i].project_id = q})]_vars

----
\* Claims about the generic update.

\* C11: update(existing, partial_input) changes exactly the fields present in
\* partial_input: a present field takes its value, an explicit null included, and
\* every absent field (the updated_at stamp of the written row aside) and every
\* other row keeps its value.
C11_UpdateSetsPresentFields ==
    [][\A d \in DeploymentIdInputs, deployment_in \in DeploymentUpdateInputs :
          (d \in DOMAIN deployments /\ update_deployment(d, deployment_in))
             => /\ resp'.code = 200
                /\ DOMAIN deployments' = DOMAIN deployments
                /\ \A f \in DOMAIN deployments[d] \ {"updated_at"} :
                      deployments'[d][f] = IF f \in DOMAIN deployment_in
                                           THEN deployment_in[f]
                                           ELSE deployments[d][f]
                /\ \A e \in DOMAIN deployments \ {d} : deployments'[e] = deployments[e]
                /\ UNCHANGED <<sprints, issues>>]_vars

----
\* Claims about issue keys.

IssuesOf(p) == {i \in DOMAIN issues : issues[i].project_id = p}

\* The highest number in the keys of the issues of project p, 0 without issues.
HighestNumber(p) ==
    IF IssuesOf(p) = {} THEN 0
    ELSE CHOOSE h \in {issues[i].key.number : i \in IssuesOf(p)} :
            \A i \in IssuesOf(p) : issues[i].key.number <= h

\* C12: under sequential requests, after any creations and deletions of issues, a
\* creation in project K succeeds with the key K-(h+1), h being the highest number
\* in the keys of the project's existing issues (K-1 without issues), and no two
\* existing issues share a key.
C12_NextIssueKey ==
    [][\A u \in Users, p \in projects, s \in SprintRefInputs :
          (create_issue(u, p, s) /\ ~SprintReferenceViolated(s))
             => /\ resp'.code = 201
                /\ DOMAIN issues' = DOMAIN issues \cup {resp'.id}
                /\ resp'.id \notin DOMAIN issues
                /\ issues'[resp'.id].key = IssueKey(p, HighestNumber(p) + 1)
                /\ \A i, j \in DOMAIN issues' :
                      issues'[i].key = issues'[j].key => i = j]_vars

\* The third issue of a project got the number 2 again after the second was deleted.
C12_Witness ==
    /\ resp.op = "create_issue"
    /\ resp.code = 201
    /\ resp.id = 3
    /\ DOMAIN issues = {1, 3}
    /\ issues[1].project_id = issues[3].project_id
    /\ issues[3].key.number = 2

----
\* Claims about projects.

SprintsOf(p) == {sp \in DOMAIN sprints : sprints[sp].project_id = p}

\* C13: deleting a project P removes P, every sprint of P and every issue of P, in
\* a sprint or in the backlog, and leaves the sprints and the issues of the other
\* projects as they are.
C13_ProjectCascade ==
    [][\A P \in projects :
          delete_project(P)
             => /\ resp'.code = 200
                /\ P \notin projects'
                /\ \A sp \in SprintsOf(P) : sp \notin DOMAIN sprints'
                /\ \A i \in IssuesOf(P) : i \notin DOMAIN issues'
                /\ \A sp \in DOMAIN sprints \ SprintsOf(P) :
                      sp \in DOMAIN sprints' /\ sprints'[sp] = sprints[sp]
                /\ \A i \in DOMAIN issues \ IssuesOf(P) :
                      /\ i \in DOMAIN issues'
                      /\ issues[i].sprint_id \notin SprintsOf(P) => issues'[i] = issues[i]]_vars

----
\* Claims about teams and about failing requests.

Tables ==
    <<projects, project_rows, teams, team_members, services, sprints, issues, deployments>>

HoldsRole(members, team_id, user_id, role) ==
    \E m \in DOMAIN members :
        /\ members[m].team_id = team_id
        /\ members[m].user_id = user_id
        /\ members[m].role = role

\* C15: a member removal whose target holds the owner role of the team is rejected,
\* whoever asks for it, and the memberships stay as they were.
C15_OwnerNotRemoved ==
    [][(/\ resp'.op = "remove_team_member"
        /\ resp'.id \in DOMAIN teams
        /\ HoldsRole(team_members, resp'.id, resp'.arg, "owner"))
       => (resp'.code = 400 /\ team_members' = team_members)]_vars

\* The removal of an owner was asked for in a team that also has an admin, and rejected.
C15_Witness ==
    /\ resp.op = "remove_team_member" /\ resp.code = 400
    /\ resp.id \in DOMAIN teams
    /\ HoldsRole(team_members, resp.id, resp.arg, "owner")
    /\ \E x \in Users : HoldsRole(team_members, resp.id, x, "admin")

\* C16: deleting a team and changing a member's role succeed only for an owner of the
\* team; for anybody else the request is rejected with an authorization failure (403)
\* and teams, memberships, roles and dependent rows are unchanged.
C16_OwnerOnlyOperations ==
    [][\A a \in Users, t \in DOMAIN teams, x \in UserIdInputs, r \in TeamRole :
          ((delete_team(a, t) \/ update_member_role(a, t, x, r))
           /\ ~HoldsRole(team_members, t, a, "owner"))
          => (resp'.code = 403 /\ Tables' = Tables)]_vars

\* C17: creating a team with an unused name answers 201 with the team, the creator is
\* its owner and every existing user of member_ids but the creator is a member.
C17_CreateTeamSucceeds ==
    [][\A u \in Users, n \in TeamNames, ids \in MemberIdsInputs :
          (create_team(u, n, NullStr, ids) /\ get_by_name(n) = {})
          => /\ resp'.code = 201
             /\ \E t \in DOMAIN teams' \ DOMAIN teams :
                   /\ resp'.id = t
                   /\ teams'[t] = [name |-> n, slug |-> create_slug(n)]
                   /\ HoldsRole(team_members', t, u, "owner")
                   /\ \A k \in 1..Len(ids) :
                         (ids[k] \in Users /\ ids[k] # u)
                         => HoldsRole(team_members', t, ids[k], "member")]_vars

----
\* Claims about creation and status updates.

\* C18: CRUDBase.create takes a plain mapping as well as a schema object, so creating
\* a deployment for an existing service answers 201 and stores a row with deployed_by
\* the acting user; for a service that does not exist it answers 404 and adds no row.
C18_CreateAcceptsMapping ==
    [][\A u \in Users, sv \in ServiceIdInputs, v \in Versions, s \in DeploymentStatus :
          create_deployment(u, sv, v, s)
          => IF sv \in services
             THEN /\ resp'.code = 201
                  /\ \E new \in DOMAIN deployments' \ DOMAIN deployments :
                        /\ deployments'[new].deployed_by = u
                        /\ deployments'[new].service_id = sv
             ELSE /\ resp'.code = 404
                  /\ deployments' = deployments]_vars

DeploymentColumns ==
    {"service_id", "deployed_by", "version", "commit_hash", "branch", "tag", "type",
     "status", "environment", "rollback_from_id", "notes", "started_at",
     "completed_at", "error_message", "updated_at"}

\* C19: a status update of an existing deployment is accepted for each of the five
\* statuses whatever the current one; a terminal status sets completed_at to the
\* current time, pending and in_progress leave it; error_message is stored only for
\* failed with a message, and is left otherwise; nothing else of the row changes
\* (but its updated_at stamp), and no other row changes.
C19_StatusUpdate ==
    [][\A m \in ErrorMessageInputs :
          (/\ resp'.op = "update_deployment_status"
           /\ resp'.id \in DOMAIN deployments
           /\ update_deployment_status(resp'.id, resp'.arg, m))
          => LET id == resp'.id
                 s == resp'.arg
                 old == deployments[id]
                 new == deployments'[id]
             IN  /\ resp'.code = 200
                 /\ DOMAIN deployments' = DOMAIN deployments
                 /\ new.status = s
                 /\ new.completed_at = IF s \in TerminalStatus THEN clock
                                       ELSE old.completed_at
                 /\ new.error_message = IF s = "failed" /\ m \notin {NullStr, ""} THEN m
                                        ELSE old.error_message
                 /\ \A f \in DeploymentColumns \ {"status", "completed_at", "error_message",
                                                   "updated_at"} : new[f] = old[f]
                 /\ \A d \in DOMAIN deployments \ {id} : deployments'[d] = deployments[d]]_vars

\* A deployment that had completed was set back to pending and kept its completed_at.
C19_Witness ==
    /\ resp.op = "update_deployment_status" /\ resp.code = 200
    /\ resp.id \in DOMAIN deployments
    /\ deployments[resp.id].status = "pending"
    /\ deployments[resp.id].completed_at # NULL
    /\ deployments[resp.id].error_message = "boom"

----
\* Claims about projects.

\* C20: creating a project with the key of an existing project is rejected with a
\* bad-request error (400) and leaves the projects as they were; no two projects
\* ever share a key.
C20_DuplicateKeyRejected ==
    /\ [](\A p, q \in projects : project_rows[p].key = project_rows[q].key => p = q)
    /\ [][\A k \in ProjectKeyInputs, t \in TeamIdInputs :
            (create_project(1, k, t) /\ \E p \in projects : project_rows[p].key = k)
            => (resp'.code = 400 /\ projects' = projects /\ project_rows' = project_rows)]_vars

\* A creation with the key of an existing project was rejected.
C20_Witness ==
    /\ resp.op = "create_project" /\ resp.code = 400
    /\ \E p \in projects : project_rows[p].key = resp.arg

----
\* Claims about requests that run side by side.

\* C26: two start requests for two planned sprints of one project, each with its
\* check and its commit as separate steps, never end with both sprints active.
C26_ConcurrentStarts ==
    \A r1, r2 \in DOMAIN requests :
        (/\ requests[r1].op = "start_sprint" /\ requests[r2].op = "start_sprint"
         /\ requests[r1].pc = "done" /\ requests[r2].pc = "done"
         /\ requests[r1].sprint_id # requests[r2].sprint_id
         /\ requests[r1].sprint_id \in DOMAIN sprints
         /\ requests[r2].sprint_id \in DOMAIN sprints
         /\ sprints[requests[r1].sprint_id].project_id
            = sprints[requests[r2].sprint_id].project_id)
        => ~(/\ sprints[requests[r1].sprint_id].status = "active"
             /\ sprints[requests[r2].sprint_id].status = "active")

\* Two finished issue creations that had generated the same key.
Raced(r1, r2) ==
    /\ r1 # r2
    /\ requests[r1].op = "create_issue" /\ requests[r2].op = "create_issue"
    /\ requests[r1].pc = "done" /\ requests[r2].pc = "done"
    /\ requests[r1].code # 404 /\ requests[r2].code # 404
    /\ requests[r1].key = requests[r2].key

StoredWithKey(key) == {i \in DOMAIN issues : issues[i].key = key}

\* C21 as stated: two issue creations for a project that both read the last number
\* before either commits end with two issues that carry the same key.
C21_DuplicateKeysStored ==
    \A r1, r2 \in DOMAIN requests :
        Raced(r1, r2) => Cardinality(StoredWithKey(requests[r1].key)) >= 2

\* C21 as amended: of two issue creations that generated the same key the unique
\* index on issues.key lets at most one commit and the other ends 500; no two issues
\* ever carry the same key.
C21_RaceLosesRequest ==
    /\ \A i, j \in DOMAIN issues : issues[i].key = issues[j].key => i = j
    /\ \A r1, r2 \in DOMAIN requests :
          Raced(r1, r2) => /\ 500 \in {requests[r1].code, requests[r2].code}
                           /\ Cardinality(StoredWithKey(requests[r1].key)) <= 1

\* Two creations raced: one was stored, the other answered 500.
C21_Witness ==
    \E r1, r2 \in DOMAIN requests :
        /\ Raced(r1, r2)
        /\ requests[r1].code = 201 /\ requests[r2].code = 500
        /\ Cardinality(StoredWithKey(requests[r1].key)) = 1

----
\* Claims about the query builder.

\* The keywords of a filter call whose value is not None.
NotNone(kwargs) == [f \in {g \in DOMAIN kwargs : kwargs[g] # NULL} |-> kwargs[f]]

\* A call the claim names: a filter whose values are all None, a search with a
\* term that is None or empty, a sort by a name the model has not.
NamedNoOp(call) ==
    \/ call.op = "filter" /\ \A f \in DOMAIN call.kwargs : call.kwargs[f] = NULL
    \/ call.op = "search" /\ call.search_term \in {None, Str(<<>>)}
    \/ call.op = "sort" /\ call.sort_by \notin QueryModelFields \cup {NullStr, ""}

\* C25: filter with a None value, search with a missing or empty term and sort by
\* an unknown field raise nothing and leave the query as it was: the same rows in
\* the same order; a None keyword next to others adds nothing to what the others add.
C25_NoOpCalls ==
    /\ NamedNoOp(builder.call)
          => /\ ~builder.raised
             /\ builder.query = builder.before
             /\ Execute(builder.query) = Execute(builder.before)
    /\ builder.call.op = "filter"
          => /\ ~builder.raised
             /\ Execute(builder.query)
                = Execute(QueryBuilder_filter(builder.before, QueryModelFields,
                                              NotNone(builder.call.kwargs)).query)

\* A query with a condition and an order went through a sort by an unknown field
\* with an order that is no SortOrder.
C25_Witness ==
    /\ builder.call.op = "sort" /\ builder.call.sort_by = "nope"
    /\ builder.call.order = "sideways"
    /\ builder.before.where # {} /\ builder.before.order_by # <<>>

----
\* Claims about what holds after any sequence of requests.

\* C27: every deployment whose status is success, failed or rolled_back has a
\* completed_at that is not null.
C27_TerminalHasCompletedAt ==
    \A d \in DOMAIN deployments :
        deployments[d].status \in TerminalStatus => deployments[d].completed_at # NULL

\* C28: every team has at least one member whose role is owner.
C28_TeamHasOwner ==
    \A t \in DOMAIN teams : \E u \in Users : HoldsRole(team_members, t, u, "owner")

\* C29: every issue with a sprint_id refers to a sprint that exists and belongs to
\* the project of the issue.
C29_SprintOfSameProject ==
    \A i \in DOMAIN issues :
        issues[i].sprint_id # NULL
        => /\ issues[i].sprint_id \in DOMAIN sprints
           /\ sprints[issues[i].sprint_id].project_id = issues[i].project_id

\* C30: a user has at most one membership row in a team, and adding a user who is
\* a member of the team already is rejected and leaves the memberships as they were.
C30_OneMembership ==
    /\ [](\A m, n \in DOMAIN team_members :
            (/\ team_members[m].team_id = team_members[n].team_id
             /\ team_members[m].user_id = team_members[n].user_id) => m = n)
    /\ [][(/\ resp'.op = "add_team_member"
           /\ resp'.id \in DOMAIN teams
           /\ MembershipsOf(resp'.id, resp'.arg) # {})
          => (resp'.code = 400 /\ team_members' = team_members)]_vars

\* An owner or admin of the team asked to add a user who was a member already.
C30_Witness ==
    /\ resp.op = "add_team_member" /\ resp.code = 400
    /\ resp.id \in DOMAIN teams
    /\ MembershipsOf(resp.id, resp.arg) # {}
    /\ \A u \in Users : MembershipsOf(resp.id, u) # {}

====
